---- MODULE Spec2Model ----
(***************************************************************************)
(* Equipment loans (dockerizado/app.py): the SQLite tables equipos and     *)
(* transacciones, the "Registrar Operacion" handler run by concurrent      *)
(* Streamlit sessions, registrar_transaccion as one SQLite transaction     *)
(* (INSERT, UPDATE, commit) and the read obtener_estado_equipo.            *)
(*                                                                         *)
(* Committed database state is in equipos and transacciones; what a        *)
(* session has written but not committed is in pend.  Every read in the    *)
(* program opens its own connection, so it sees committed state only.      *)
(***************************************************************************)
EXTENDS Integers, Sequences, FiniteSets, TLC

\* ---------------------------------------------------------------- bounds
NumSesiones == 2      \* concurrent browser sessions (script runs)
MaxEquipos == 2       \* ids that can be registered
MaxTx == 3            \* committed rows of transacciones
MaxTicks == 2         \* the clock stops after this many ticks
TicksPorSegundo == 2  \* clock ticks inside one second of fecha_hora
MaxEmpleados == 2     \* rows ever inserted into empleados
MaxFilasCSV == 2      \* rows of an imported CSV file

NULL == "NULL"        \* Python None / SQL NULL

Sesiones == 1..NumSesiones
IdsCatalogo == <<"E1", "E2", "E3", "E4">>
EquipoIds == {IdsCatalogo[i] : i \in 1..MaxEquipos}
Nombres == {"ThinkPad"}
Tipos == {"Laptop"}
TiposOperacion == {"Entrega", "Devolucion"}

\* What a user can put in the employee fields of an Entrega (manual entry).
Personas ==
    { [empleado |-> "", email |-> "", area |-> ""],
      [empleado |-> "Ana Ruiz", email |-> "ana@isep", area |-> "Sistemas"],
      [empleado |-> "Luis Paz", email |-> "", area |-> ""] }
Responsables == {"", "IT1"}
Observaciones == {"sin cargador"}

\* What a user can type in "Agregar Nuevo Equipo" and "Agregar Empleado".
IdsAlta == EquipoIds \cup {""}
NombresAlta == Nombres \cup {"Dell"}
NombresEmpleado == {"", "Ana"}
ApellidosEmpleado == {"Ruiz"}
AreasEmpleado == {"Ventas"}
EmailsEmpleado == {""}

\* Cells of a CSV file as pandas reads them: <<>> is an empty cell (NaN),
\* <<t>> a cell holding the text t.
FilasCSV ==
    [area : {<<"Ventas">>, <<" ">>}, nombre : {<<"Ana">>, <<>>},
     apellido : {<<"Ruiz">>}, email : {<<>>}]
ArchivosCSV == UNION {[1..n -> FilasCSV] : n \in 0..MaxFilasCSV}

VARIABLES
    equipos,        \* table equipos: id -> [nombre, tipo, estado] (committed)
    transacciones,  \* table transacciones, in id order (committed)
    reloj,          \* datetime.now(), in ticks
    pc,             \* per session: where its script run is
    loc,            \* per session: the handler's local variables
    pend,           \* per session: uncommitted writes of its connection
    resultado,      \* the message the last finished button handler showed
    empleados,      \* table empleados: [seq, filas], seq the AUTOINCREMENT counter
    alta,           \* text inputs of "Agregar Nuevo Equipo" (they keep their value)
    sesion          \* per session: st.session_state (menu and preload)

vars == <<equipos, transacciones, reloj, pc, loc, pend, resultado, empleados, alta,
          sesion>>

\* ------------------------------------------------------------ pure parts

\* strftime('%Y-%m-%d %H:%M:%S'): the clock cut to whole seconds.
strftime(t) == t \div TicksPorSegundo

\* Rows of transacciones WHERE equipo_id = e.
FilasDe(e) == {i \in 1..Len(transacciones) : transacciones[i].equipo_id = e}

\* ORDER BY fecha_hora DESC LIMIT 1 over the rows S: SQL leaves the order of
\* rows with equal fecha_hora open, so any row with the greatest one.
PrimerasPorFechaDesc(S) ==
    {i \in S : \A j \in S : transacciones[j].fecha_hora <= transacciones[i].fecha_hora}

\* The values obtener_estado_equipo(e) can return; fecha is <<>> for None.
obtener_estado_equipo(e) ==
    IF FilasDe(e) = {}
    THEN {[estado |-> "Disponible", usuario |-> NULL, fecha |-> <<>>]}
    ELSE {IF transacciones[i].tipo_operacion = "Entrega"
          THEN [estado |-> "Prestado", usuario |-> transacciones[i].empleado,
                fecha |-> <<transacciones[i].fecha_hora>>]
          ELSE [estado |-> "Disponible", usuario |-> NULL,
                fecha |-> <<transacciones[i].fecha_hora>>]
          : i \in PrimerasPorFechaDesc(FilasDe(e))}

\* The entries obtener_equipos_prestados() can hold for e (none: e is omitted).
obtener_equipos_prestados(e) ==
    IF e \in DOMAIN equipos /\ equipos[e].estado = "Prestado"
    THEN {[empleado |-> transacciones[i].empleado, email |-> transacciones[i].email,
           area |-> transacciones[i].area, fecha_prestamo |-> transacciones[i].fecha_hora]
          : i \in PrimerasPorFechaDesc(
                    {j \in FilasDe(e) : transacciones[j].tipo_operacion = "Entrega"})}
    ELSE {}

\* Mutant of NuevoEstado: the estado does not follow the kind of operation.
NuevoEstadoSiemprePrestado(tipo_operacion) == "Prestado"

\* Mutant of NuevoEstado: a return leaves the item in a third estado.
NuevoEstadoEnRevision(tipo_operacion) ==
    IF tipo_operacion = "Entrega" THEN "Prestado" ELSE "En revision"

\* registrar_transaccion, line 137.
NuevoEstado(tipo_operacion) ==
    IF tipo_operacion = "Entrega" THEN "Prestado" ELSE "Disponible"

\* Mutant of CamposObligatoriosOk: a return asks for nothing (the lenient
\* policy of the oldest variant of the application).
CamposObligatoriosOkLegado(tipo_operacion, empleado, responsable) ==
    IF tipo_operacion = "Entrega"
    THEN empleado # "" /\ responsable # ""
    ELSE TRUE

\* The handler's checks, lines 598-620, on the estado it read.
CamposObligatoriosOk(tipo_operacion, empleado, responsable) ==
    IF tipo_operacion = "Entrega"
    THEN empleado # "" /\ responsable # ""
    ELSE responsable # ""

\* Mutant of TransicionIlegal: the check of line 619 is missing.
TransicionIlegalSoloEntrega(tipo_operacion, estado_actual) ==
    tipo_operacion = "Entrega" /\ estado_actual = "Prestado"

TransicionIlegal(tipo_operacion, estado_actual) ==
    \/ tipo_operacion = "Entrega" /\ estado_actual = "Prestado"
    \/ tipo_operacion = "Devolucion" /\ estado_actual = "Disponible"

LocInicial ==
    [equipo_id |-> NULL, tipo_operacion |-> NULL, empleado |-> "", email |-> "",
     area |-> "", observaciones |-> "", responsable |-> "",
     estado_actual |-> NULL, fecha_hora |-> NULL, vista |-> <<>>]

\* fila: the rows inserted and not committed (none or one); estado: the
\* estado written by the UPDATE and not committed.
PendVacio == [fila |-> <<>>, estado |-> NULL]

\* The connection of session s holds SQLite's write lock.
TieneLock(s) == pend[s].fila # <<>>

\* equipos_df filtered by estado, lines 422 and 446 (ids only).
equipos_disponibles == {e \in DOMAIN equipos : equipos[e].estado = "Disponible"}

equipos_prestados == {e \in DOMAIN equipos : equipos[e].estado = "Prestado"}

\* The three text inputs of lines 646-650 before anything is typed.
AltaVacia == [id |-> "", nombre |-> "", tipo |-> ""]

\* opciones_menu, line 369.
Vistas == {"Registro", "Equipos", "Empleados", "Reportes", "QR"}

\* st.session_state of a new session, lines 351-357 and 372-373.
SesionInicial ==
    [menu_principal |-> "Registro", navegar_a_registro |-> FALSE,
     equipo_precargado |-> NULL, operacion_precargada |-> NULL]

\* ------------------------------------------------------------------ Init
Init ==
    /\ equipos = <<>>
    /\ transacciones = <<>>
    /\ reloj = 0
    /\ pc = [s \in Sesiones |-> "idle"]
    /\ loc = [s \in Sesiones |-> LocInicial]
    /\ pend = [s \in Sesiones |-> PendVacio]
    /\ resultado = "none"
    /\ empleados = [seq |-> 0, filas |-> {}]
    /\ alta = AltaVacia
    /\ sesion = [s \in Sesiones |-> SesionInicial]

\* --------------------------------------------------------------- actions

\* Time passes.
Tick ==
    /\ reloj < MaxTicks
    /\ reloj' = reloj + 1
    /\ UNCHANGED <<equipos, transacciones, pc, loc, pend, resultado, empleados, alta, sesion>>

\* Mutant of EquiposTrasAgregar: INSERT OR REPLACE, a duplicate id
\* overwrites the row.
EquiposTrasAgregarReemplaza(e, nombre, tipo) ==
    [x \in DOMAIN equipos \cup {e} |->
        IF x = e
        THEN [nombre |-> nombre, tipo |-> tipo, estado |-> "Disponible"]
        ELSE equipos[x]]

\* Mutant of EquiposTrasAgregar: the column default of estado is Prestado.
EquiposTrasAgregarPrestado(e, nombre, tipo) ==
    IF e \in DOMAIN equipos
    THEN equipos
    ELSE [x \in DOMAIN equipos \cup {e} |->
            IF x = e
            THEN [nombre |-> nombre, tipo |-> tipo, estado |-> "Prestado"]
            ELSE equipos[x]]

\* The table equipos after the INSERT of lines 149-151: estado by the
\* column default (line 31); IntegrityError on a duplicate id (primary key,
\* line 28) leaves the table as it is.
EquiposTrasAgregar(e, nombre, tipo) ==
    IF e \in DOMAIN equipos
    THEN equipos
    ELSE [x \in DOMAIN equipos \cup {e} |->
            IF x = e
            THEN [nombre |-> nombre, tipo |-> tipo, estado |-> "Disponible"]
            ELSE equipos[x]]

\* agregar_equipo called with all three inputs filled in.
agregar_equipo(e, nombre, tipo) ==
    /\ \A s \in Sesiones : ~TieneLock(s)
    /\ equipos' = EquiposTrasAgregar(e, nombre, tipo)
    /\ UNCHANGED <<transacciones, reloj, pc, loc, pend, resultado, empleados, alta, sesion>>

\* The registration view of the run in which the button was clicked, lines
\* 392-499: equipos_df is read, the equipment is one of those whose estado
\* fits the kind of operation (none when there is none), its
\* obtener_estado_equipo is shown (line 474) and a return takes the employee
\* fields from the active loan (lines 489-499).
Formulario(s) ==
    /\ pc[s] = "idle"
    /\ sesion[s].menu_principal = "Registro"
    /\ ~sesion[s].navegar_a_registro
    /\ DOMAIN equipos # {}
    /\ \E tipo \in TiposOperacion :
         LET filtro == IF tipo = "Entrega" THEN "Disponible" ELSE "Prestado"
             opciones == {e \in DOMAIN equipos : equipos[e].estado = filtro}
             sin_datos == [empleado |-> "", email |-> "", area |-> ""]
         IN \E e \in (IF opciones = {} THEN {NULL} ELSE opciones) :
            \E p \in (IF tipo = "Entrega" \/ e = NULL \/ obtener_equipos_prestados(e) = {}
                      THEN {sin_datos}
                      ELSE {[empleado |-> q.empleado, email |-> q.email,
                             area |-> q.area] : q \in obtener_equipos_prestados(e)}),
               v \in (IF e = NULL THEN {<<>>}
                      ELSE {<<r>> : r \in obtener_estado_equipo(e)}) :
               loc' = [loc EXCEPT ![s] =
                         [LocInicial EXCEPT !.equipo_id = e, !.tipo_operacion = tipo,
                            !.empleado = p.empleado, !.email = p.email, !.area = p.area,
                            !.vista = v]]
    /\ pc' = [pc EXCEPT ![s] = "boton"]
    /\ UNCHANGED <<equipos, transacciones, reloj, pend, resultado, empleados, alta, sesion>>

\* Mutant of Rechazo: the estado is validated before the required fields.
RechazoEstadoPrimero(equipo_id, f) ==
    IF equipo_id = NULL THEN "SinEquipo"
    ELSE IF equipo_id \notin DOMAIN equipos THEN "NoExiste"
    ELSE IF TransicionIlegal(f.tipo_operacion, equipos[equipo_id].estado)
    THEN "TransicionIlegal"
    ELSE IF ~CamposObligatoriosOk(f.tipo_operacion, f.empleado, f.responsable)
    THEN "CamposObligatorios"
    ELSE ""

\* Mutant of Rechazo: the check of line 595 is missing.
RechazoSinExistencia(equipo_id, f) ==
    IF equipo_id = NULL THEN "SinEquipo"
    ELSE IF ~CamposObligatoriosOk(f.tipo_operacion, f.empleado, f.responsable)
    THEN "CamposObligatorios"
    ELSE IF equipo_id \in DOMAIN equipos
            /\ TransicionIlegal(f.tipo_operacion, equipos[equipo_id].estado)
    THEN "TransicionIlegal"
    ELSE ""

\* The handler of "Registrar Operacion" on the fields f of the form, lines
\* 586-620 and 628-631: SELECT estado on a connection of its own, then the
\* checks on what was read.  The outcome: the message shown, or "" when the
\* operation goes on to registrar_transaccion.
Rechazo(equipo_id, f) ==
    IF equipo_id = NULL THEN "SinEquipo"
    ELSE IF equipo_id \notin DOMAIN equipos THEN "NoExiste"
    ELSE IF ~CamposObligatoriosOk(f.tipo_operacion, f.empleado, f.responsable)
    THEN "CamposObligatorios"
    ELSE IF TransicionIlegal(f.tipo_operacion, equipos[equipo_id].estado)
    THEN "TransicionIlegal"
    ELSE ""

\* "Nombre Apellido", lines 528 and 511.
NombreCompleto(nombre, apellido) == nombre \o " " \o apellido

\* The employee fields an Entrega takes from a row of empleados chosen in
\* the selectbox, lines 522-531.
FichasEmpleados ==
    {[empleado |-> NombreCompleto(c.nombre, c.apellido), email |-> c.email,
      area |-> c.area] : c \in empleados.filas}

\* The button is clicked: the widgets of lines 503-584 give the employee
\* fields of a delivery (those of a return are read-only), the responsable
\* and the observaciones, and the handler runs up to its decision.
Validar(s) ==
    /\ pc[s] = "boton"
    /\ \E p \in (IF loc[s].tipo_operacion = "Entrega" THEN Personas \cup FichasEmpleados
                  ELSE {[empleado |-> loc[s].empleado, email |-> loc[s].email,
                         area |-> loc[s].area]}),
          resp \in Responsables, obs \in Observaciones :
         LET f == [loc[s] EXCEPT !.empleado = p.empleado, !.email = p.email,
                                 !.area = p.area, !.responsable = resp,
                                 !.observaciones = obs, !.vista = <<>>]
             r == Rechazo(f.equipo_id, f)
         IN IF r # ""
            THEN /\ pc' = [pc EXCEPT ![s] = "idle"]
                 /\ resultado' = r
                 /\ loc' = [loc EXCEPT ![s] = LocInicial]
            ELSE /\ pc' = [pc EXCEPT ![s] = "registrar"]
                 /\ loc' = [loc EXCEPT ![s] =
                              [f EXCEPT !.estado_actual = equipos[f.equipo_id].estado]]
                 /\ UNCHANGED resultado
    /\ UNCHANGED <<equipos, transacciones, reloj, pend, empleados, alta, sesion>>

\* registrar_transaccion, line 128: fecha_hora is taken before the INSERT.
TomarFecha(s) ==
    /\ pc[s] = "registrar"
    /\ loc' = [loc EXCEPT ![s].fecha_hora = strftime(reloj)]
    /\ pc' = [pc EXCEPT ![s] = "insert"]
    /\ UNCHANGED <<equipos, transacciones, reloj, pend, resultado, empleados, alta, sesion>>

\* Mutant of FilaNueva: email and area change places in the VALUES list.
FilaNuevaColumnasCambiadas(l) ==
    [id |-> Len(transacciones) + 1, equipo_id |-> l.equipo_id,
     empleado |-> l.empleado, email |-> l.area, area |-> l.email,
     tipo_operacion |-> l.tipo_operacion, fecha_hora |-> l.fecha_hora,
     observaciones |-> l.observaciones, responsable |-> l.responsable]

\* The row the INSERT of lines 130-134 writes; AUTOINCREMENT gives the id.
FilaNueva(l) ==
    [id |-> Len(transacciones) + 1, equipo_id |-> l.equipo_id,
     empleado |-> l.empleado, email |-> l.email, area |-> l.area,
     tipo_operacion |-> l.tipo_operacion, fecha_hora |-> l.fecha_hora,
     observaciones |-> l.observaciones, responsable |-> l.responsable]

\* registrar_transaccion, lines 130-134: the INSERT opens the transaction and
\* takes the write lock; it waits while another connection holds it.
Insertar(s) ==
    /\ pc[s] = "insert"
    /\ Len(transacciones) < MaxTx
    /\ \A o \in Sesiones : ~TieneLock(o)
    /\ pend' = [pend EXCEPT ![s].fila = <<FilaNueva(loc[s])>>]
    /\ pc' = [pc EXCEPT ![s] = "update"]
    /\ UNCHANGED <<equipos, transacciones, reloj, loc, resultado, empleados, alta, sesion>>

\* registrar_transaccion, lines 136-138: UPDATE equipos SET estado, same
\* transaction.
Actualizar(s) ==
    /\ pc[s] = "update"
    /\ pend' = [pend EXCEPT ![s].estado = NuevoEstado(loc[s].tipo_operacion)]
    /\ pc' = [pc EXCEPT ![s] = "commit"]
    /\ UNCHANGED <<equipos, transacciones, reloj, loc, resultado, empleados, alta, sesion>>

\* Mutant of EquiposTrasCommit: the UPDATE is not part of what is committed.
EquiposTrasCommitSinUpdate(p) == equipos

\* Mutant of TransaccionesTrasCommit: the row takes the place of the last one
\* (INSERT OR REPLACE on a reused id).
TransaccionesTrasCommitReemplaza(p) ==
    IF transacciones = <<>> THEN p.fila
    ELSE SubSeq(transacciones, 1, Len(transacciones) - 1) \o p.fila

\* Mutant of EquiposTrasCommit: the UPDATE of line 138 without its WHERE.
EquiposTrasCommitSinWhere(p) ==
    IF p.estado = NULL THEN equipos
    ELSE [x \in DOMAIN equipos |-> [equipos[x] EXCEPT !.estado = p.estado]]

\* Mutant of EquiposTrasCommit: the UPDATE selects by the item's nombre, not
\* by its id.
EquiposTrasCommitPorNombre(p) ==
    IF p.fila = <<>> \/ p.estado = NULL \/ p.fila[1].equipo_id \notin DOMAIN equipos
    THEN equipos
    ELSE [x \in DOMAIN equipos |->
            IF equipos[x].nombre = equipos[p.fila[1].equipo_id].nombre
            THEN [equipos[x] EXCEPT !.estado = p.estado]
            ELSE equipos[x]]

\* What conn.commit() makes visible: the pending row and the pending estado.
TransaccionesTrasCommit(p) ==
    transacciones \o p.fila

EquiposTrasCommit(p) ==
    IF p.fila = <<>> \/ p.estado = NULL \/ p.fila[1].equipo_id \notin DOMAIN equipos
    THEN equipos
    ELSE [equipos EXCEPT ![p.fila[1].equipo_id].estado = p.estado]

\* registrar_transaccion, lines 140-141, then lines 623-627 of the handler.
Commit(s) ==
    /\ pc[s] = "commit"
    /\ transacciones' = TransaccionesTrasCommit(pend[s])
    /\ equipos' = EquiposTrasCommit(pend[s])
    /\ pend' = [pend EXCEPT ![s] = PendVacio]
    /\ pc' = [pc EXCEPT ![s] = "idle"]
    /\ loc' = [loc EXCEPT ![s] = LocInicial]
    /\ resultado' = "ok"
    /\ sesion' = [sesion EXCEPT ![s].equipo_precargado = NULL,
                                ![s].operacion_precargada = NULL]
    /\ UNCHANGED <<reloj, empleados, alta>>

\* Mutant of TransaccionesTrasFallo: the INSERT was committed on its own
\* (autocommit), so a later failure cannot take it back.
TransaccionesTrasFalloAutocommit(p) == transacciones \o p.fila

\* What is committed when the connection is dropped with an exception in
\* flight (no commit was issued): nothing of the open transaction.
TransaccionesTrasFallo(p) == transacciones

EquiposTrasFallo(p) == equipos

\* A store failure inside registrar_transaccion (sqlite3.Error at the INSERT,
\* the UPDATE or the commit): the exception leaves the function, the
\* connection is dropped and SQLite rolls its open transaction back.  The
\* run ends showing the exception, which names the statement that raised.
Fallo(s) ==
    /\ pc[s] \in {"insert", "update", "commit"}
    /\ transacciones' = TransaccionesTrasFallo(pend[s])
    /\ equipos' = EquiposTrasFallo(pend[s])
    /\ pend' = [pend EXCEPT ![s] = PendVacio]
    /\ pc' = [pc EXCEPT ![s] = "idle"]
    /\ loc' = [loc EXCEPT ![s] = LocInicial]
    /\ resultado' = (IF pc[s] = "insert" THEN "FalloInsert"
                     ELSE IF pc[s] = "update" THEN "FalloUpdate" ELSE "FalloCommit")
    /\ UNCHANGED <<reloj, empleados, alta, sesion>>

\* One step of the script run of session s.
Paso(s) ==
    \/ Formulario(s)
    \/ Validar(s)
    \/ TomarFecha(s)
    \/ Insertar(s)
    \/ Actualizar(s)
    \/ Commit(s)
    \/ Fallo(s)

Next ==
    \/ Tick
    \/ \E e \in EquipoIds, n \in Nombres, t \in Tipos : agregar_equipo(e, n, t)
    \/ \E s \in Sesiones : Paso(s)

Spec == Init /\ [][Next]_vars

\* One session alone: every operation runs to its end before the next starts.
NextSecuencial ==
    \/ Tick
    \/ \E e \in EquipoIds, n \in Nombres, t \in Tipos : agregar_equipo(e, n, t)
    \/ Paso(1)

SpecSecuencial == Init /\ [][NextSecuencial]_vars

\* ------------------------------------------------- management views

\* agregar_equipo returns True: the INSERT raised no IntegrityError.
AgregarEquipoOk(e) == e \notin DOMAIN equipos

\* "Agregar Equipo", lines 646-659, with e, nombre and tipo in the inputs.
BotonAgregarEquipo(s, e, nombre, tipo) ==
    /\ pc[s] = "idle"
    /\ \A x \in Sesiones : ~TieneLock(x)
    /\ alta' = [id |-> e, nombre |-> nombre, tipo |-> tipo]
    /\ IF e # "" /\ nombre # "" /\ tipo # ""
       THEN /\ equipos' = EquiposTrasAgregar(e, nombre, tipo)
            /\ resultado' = IF AgregarEquipoOk(e) THEN "EquipoAgregado" ELSE "YaExiste"
       ELSE /\ equipos' = equipos
            /\ resultado' = "CompletaCampos"
    /\ UNCHANGED <<transacciones, reloj, pc, loc, pend, empleados, sesion>>

\* agregar_empleado, lines 253-257: the id is the next AUTOINCREMENT value.
EmpleadosTrasAgregar(nombre, apellido, area, email) ==
    [seq |-> empleados.seq + 1,
     filas |-> empleados.filas \cup
               {[id |-> empleados.seq + 1, nombre |-> nombre, apellido |-> apellido,
                 area |-> area, email |-> email]}]

\* "Agregar Empleado", lines 801-809.
BotonAgregarEmpleado(s, nombre, apellido, area, email) ==
    /\ pc[s] = "idle"
    /\ \A x \in Sesiones : ~TieneLock(x)
    /\ IF nombre # "" /\ apellido # "" /\ area # ""
       THEN /\ empleados.seq < MaxEmpleados
            /\ empleados' = EmpleadosTrasAgregar(nombre, apellido, area, email)
            /\ resultado' = "EmpleadoAgregado"
       ELSE /\ empleados' = empleados
            /\ resultado' = "CompletaCamposEmpleado"
    /\ UNCHANGED <<equipos, transacciones, reloj, pc, loc, pend, alta, sesion>>

\* eliminar_empleado, line 307: DELETE FROM empleados WHERE id = ?.
EmpleadosTrasEliminar(id) ==
    [empleados EXCEPT !.filas = {c \in @ : c.id # id}]

\* Mutant of TransaccionesTrasEliminar: the delete cascades to the rows that
\* carry the employee's name and blanks their employee fields.
TransaccionesTrasEliminarCascada(id) ==
    LET borrados == {NombreCompleto(c.nombre, c.apellido) :
                        c \in {d \in empleados.filas : d.id = id}}
    IN [i \in 1..Len(transacciones) |->
          IF transacciones[i].empleado \in borrados
          THEN [transacciones[i] EXCEPT !.empleado = "", !.email = "", !.area = ""]
          ELSE transacciones[i]]

\* transacciones after eliminar_empleado: the table copies the employee's
\* name, email and area as text (lines 52-55) and has no key into empleados.
TransaccionesTrasEliminar(id) == transacciones

\* "Eliminar Empleado", lines 874-881, on a row of the list.
BotonEliminarEmpleado(s, id) ==
    /\ pc[s] = "idle"
    /\ \A x \in Sesiones : ~TieneLock(x)
    /\ id \in {c.id : c \in empleados.filas}
    /\ empleados' = EmpleadosTrasEliminar(id)
    /\ transacciones' = TransaccionesTrasEliminar(id)
    /\ resultado' = "EmpleadoEliminado"
    /\ UNCHANGED <<equipos, reloj, pc, loc, pend, alta, sesion>>

\* str(cell): an empty cell is the float NaN and prints as "nan".
CeldaTexto(c) == IF c = <<>> THEN "nan" ELSE c[1]

\* str.strip() on the texts that occur here (only " " has outer blanks).
Strip(t) == IF t = " " THEN "" ELSE t

\* importar_empleados_csv from row i on, lines 277-295: a row whose area,
\* nombre or apellido is blank after str().strip() is counted as an error
\* and skipped, any other row is inserted.
RECURSIVE ImportarDesde(_, _, _)
ImportarDesde(df, i, acc) ==
    IF i > Len(df) THEN acc
    ELSE LET area == Strip(CeldaTexto(df[i].area))
             nombre == Strip(CeldaTexto(df[i].nombre))
             apellido == Strip(CeldaTexto(df[i].apellido))
             email == Strip(CeldaTexto(df[i].email))
         IN IF area = "" \/ nombre = "" \/ apellido = ""
            THEN ImportarDesde(df, i + 1, [acc EXCEPT !.errores = @ + 1])
            ELSE ImportarDesde(df, i + 1,
                    [acc EXCEPT !.importados = @ + 1,
                                !.tabla = [seq |-> @.seq + 1,
                                           filas |-> @.filas \cup
                                              {[id |-> @.seq + 1, nombre |-> nombre,
                                                apellido |-> apellido, area |-> area,
                                                email |-> email]}]])

\* importar_empleados_csv(df_csv): (importados, len(errores)) and the table
\* its commit leaves.
importar_empleados_csv(df) ==
    ImportarDesde(df, 1, [importados |-> 0, errores |-> 0, tabla |-> empleados])

\* "Importar Empleados", lines 751-763, on the uploaded file df.
BotonImportar(s, df) ==
    /\ pc[s] = "idle"
    /\ \A x \in Sesiones : ~TieneLock(x)
    /\ empleados.seq + Len(df) <= MaxEmpleados
    /\ LET r == importar_empleados_csv(df)
       IN /\ empleados' = r.tabla
          /\ resultado' = (IF r.importados > 0
                           THEN (IF r.errores > 0 THEN "ImportadosConErrores"
                                 ELSE "Importados")
                           ELSE IF r.errores > 0 THEN "ImportErrores"
                           ELSE "ImportVacio")
    /\ UNCHANGED <<equipos, transacciones, reloj, pc, loc, pend, alta, sesion>>

\* One user alone in the registration and the equipment views.
NextEquipos ==
    \/ Tick
    \/ Paso(1)
    \/ \E e \in IdsAlta, n \in NombresAlta, t \in Tipos : BotonAgregarEquipo(1, e, n, t)

SpecEquipos == Init /\ [][NextEquipos]_vars

\* One user alone in the registration and the employee views, the equipment
\* being registered with complete inputs.
NextEmpleados ==
    \/ Tick
    \/ \E e \in EquipoIds, n \in Nombres, t \in Tipos : agregar_equipo(e, n, t)
    \/ Paso(1)
    \/ \E n \in NombresEmpleado, a \in ApellidosEmpleado, ar \in AreasEmpleado,
          em \in EmailsEmpleado : BotonAgregarEmpleado(1, n, a, ar, em)
    \/ \E id \in 1..MaxEmpleados : BotonEliminarEmpleado(1, id)
    \/ \E df \in ArchivosCSV : BotonImportar(1, df)

SpecEmpleados == Init /\ [][NextEmpleados]_vars

\* ------------------------------------------------------- navigation

\* Mutant of SesionTrasVista: the reports view lacks the clearing of lines
\* 888-890.
SesionTrasVistaSinLimpiar(ses, v) ==
    IF v \in {"Registro", "Reportes"}
       \/ (ses.equipo_precargado = NULL /\ ses.operacion_precargada = NULL)
    THEN [ses EXCEPT !.menu_principal = v]
    ELSE [ses EXCEPT !.menu_principal = v, !.equipo_precargado = NULL,
                     !.operacion_precargada = NULL]

\* st.session_state after a run that renders view v: every view but the
\* registration view clears the preload (lines 635-637, 708-710, 888-890,
\* 925-927).
SesionTrasVista(ses, v) ==
    IF v = "Registro"
       \/ (ses.equipo_precargado = NULL /\ ses.operacion_precargada = NULL)
    THEN [ses EXCEPT !.menu_principal = v]
    ELSE [ses EXCEPT !.menu_principal = v, !.equipo_precargado = NULL,
                     !.operacion_precargada = NULL]

\* The user picks view v on the sidebar radio (lines 382-386) and the run
\* renders it.
CambiarVista(s, v) ==
    /\ pc[s] = "idle"
    /\ v # sesion[s].menu_principal
    /\ sesion' = [sesion EXCEPT ![s] = SesionTrasVista(@, v)]
    /\ UNCHANGED <<equipos, transacciones, reloj, pc, loc, pend, resultado, empleados,
                   alta>>

\* The head of every run, lines 376-379: a pending request for the
\* registration view forces the menu and is reset.
NavegacionProgramatica(ses) ==
    IF ses.navegar_a_registro
    THEN [ses EXCEPT !.menu_principal = "Registro", !.navegar_a_registro = FALSE]
    ELSE ses

\* "Prestar" or "Devolver" on the row of e in the equipment view, lines
\* 670-700: which of the two is drawn follows obtener_estado_equipo; the
\* click stores the preload, asks for the registration view and ends with
\* st.rerun(), whose run forces the menu and renders the view.
BotonPrestarDevolver(s, e) ==
    /\ pc[s] = "idle"
    /\ sesion[s].menu_principal = "Equipos"
    /\ e \in DOMAIN equipos
    /\ \E r \in obtener_estado_equipo(e) :
          LET clic == [SesionTrasVista(sesion[s], "Equipos") EXCEPT
                          !.equipo_precargado = e,
                          !.operacion_precargada =
                              (IF r.estado = "Disponible" THEN "Entrega" ELSE "Devolucion"),
                          !.navegar_a_registro = TRUE]
              rerun == NavegacionProgramatica(clic)
          IN sesion' = [sesion EXCEPT ![s] = SesionTrasVista(rerun, rerun.menu_principal)]
    /\ UNCHANGED <<equipos, transacciones, reloj, pc, loc, pend, resultado, empleados,
                   alta>>

\* One user alone moving between the views and recording operations.
NextNavegacion ==
    \/ Tick
    \/ \E e \in EquipoIds, n \in Nombres, t \in Tipos : agregar_equipo(e, n, t)
    \/ Paso(1)
    \/ \E v \in Vistas : CambiarVista(1, v)
    \/ \E e \in EquipoIds : BotonPrestarDevolver(1, e)

SpecNavegacion == Init /\ [][NextNavegacion]_vars

\* ================================================================ claims

\* Row j of transacciones comes before row i in timestamp order, ties
\* broken by id (rows are held in id order).
Antes(j, i) ==
    \/ transacciones[j].fecha_hora < transacciones[i].fecha_hora
    \/ transacciones[j].fecha_hora = transacciones[i].fecha_hora /\ j < i

\* Position of row i among the rows of its equipment, in timestamp order.
Rango(e, i) == Cardinality({j \in FilasDe(e) : Antes(j, i)}) + 1

\* The last transaction of e: greatest timestamp, ties broken by greatest id.
UltimaTransaccion(e) == CHOOSE i \in FilasDe(e) : \A j \in FilasDe(e) \ {i} : Antes(j, i)

\* The most recently recorded transaction of e: greatest id.
UltimaRegistrada(e) == CHOOSE i \in FilasDe(e) : \A j \in FilasDe(e) : j <= i

\* Rows of the log that the step under way adds.
FilasAgregadas == (Len(transacciones) + 1)..Len(transacciones')

\* Session s runs its handler step (lines 586-631) in the step under way.
PasoValidar(s) == pc[s] = "boton" /\ pc'[s] # "boton"

\* Session s commits registrar_transaccion in the step under way.
PasoCommit(s) == pc[s] = "commit" /\ pc'[s] = "idle" /\ resultado' = "ok"

\* Session s fails inside registrar_transaccion in the step under way.
PasoFallo(s) ==
    /\ pc[s] \in {"insert", "update", "commit"}
    /\ pc'[s] = "idle"
    /\ resultado' \in {"FalloInsert", "FalloUpdate", "FalloCommit"}

\* C1: for every equipment id the kinds of its recorded transactions, taken
\* in timestamp order, alternate strictly and start with Entrega: the first
\* is an Entrega, the second a Devolucion, the third an Entrega, and so on.
C1_Alternancia ==
    \A e \in EquipoIds : \A i \in FilasDe(e) :
        transacciones[i].tipo_operacion =
            (IF Rango(e, i) % 2 = 1 THEN "Entrega" ELSE "Devolucion")

\* C2: of two sessions racing to deliver the same available item only one
\* succeeds: the log never holds two Entrega rows of one item with no
\* Devolucion of that item recorded between them.
C2_SinDobleEntrega ==
    \A e \in EquipoIds : \A i, j \in FilasDe(e) :
        (i < j /\ transacciones[i].tipo_operacion = "Entrega"
               /\ transacciones[j].tipo_operacion = "Entrega")
        => \E k \in FilasDe(e) :
              i < k /\ k < j /\ transacciones[k].tipo_operacion = "Devolucion"

\* C3: read estado, validate, append, update is one atomic unit per item:
\* while a session is between its read of the estado and its own INSERT, no
\* step commits a row or an estado for the equipment it is working on.
C3_UnidadAtomica ==
    [][\A s \in Sesiones :
          pc[s] \in {"registrar", "insert"}
          => /\ \A i \in FilasAgregadas :
                   transacciones'[i].equipo_id # loc[s].equipo_id
             /\ equipos'[loc[s].equipo_id].estado = equipos[loc[s].equipo_id].estado]_vars

\* C4: a handler step on an illegal transition (Entrega of an item whose
\* estado is Prestado, Devolucion of one whose estado is Disponible) ends the
\* run with an error message and writes nothing: the log, every estado and
\* every open transaction are as before.
C4_TransicionIlegalRechazada ==
    [][\A s \in Sesiones :
          (/\ PasoValidar(s)
           /\ loc[s].equipo_id \in DOMAIN equipos
           /\ \/ loc[s].tipo_operacion = "Entrega"
                    /\ equipos[loc[s].equipo_id].estado = "Prestado"
              \/ loc[s].tipo_operacion = "Devolucion"
                    /\ equipos[loc[s].equipo_id].estado = "Disponible")
          => /\ pc'[s] = "idle"
             /\ resultado' \in {"TransicionIlegal", "CamposObligatorios"}
             /\ UNCHANGED <<equipos, transacciones, pend>>]_vars

\* C4 witness: an illegal transition has been rejected and some item is on
\* loan (the rejected operation found an estado that did not fit it).
C4_Witness == resultado = "TransicionIlegal" /\ Len(transacciones) >= 1

C6_EstadoDerivado ==
    \A e \in DOMAIN equipos : \A r \in obtener_estado_equipo(e) :
        r.estado = (IF FilasDe(e) # {}
                       /\ transacciones[UltimaTransaccion(e)].tipo_operacion = "Entrega"
                    THEN "Prestado" ELSE "Disponible")

\* C7: the commit of a record operation appends exactly one row, carrying
\* the equipment id, kind, employee name, email, area, observaciones and
\* responsable the handler was given, leaves the earlier rows as they were
\* and sets that item's estado to Prestado for an Entrega and to Disponible
\* for a Devolucion.
C7_RegistroCompleto ==
    [][\A s \in Sesiones :
          PasoCommit(s)
          => /\ Len(transacciones') = Len(transacciones) + 1
             /\ SubSeq(transacciones', 1, Len(transacciones)) = transacciones
             /\ LET t == transacciones'[Len(transacciones')]
                    l == loc[s]
                IN /\ t.equipo_id = l.equipo_id
                   /\ t.tipo_operacion = l.tipo_operacion
                   /\ t.empleado = l.empleado
                   /\ t.email = l.email
                   /\ t.area = l.area
                   /\ t.observaciones = l.observaciones
                   /\ t.responsable = l.responsable
                   /\ l.tipo_operacion = "Entrega" /\ l.estado_actual = "Disponible"
                      => equipos'[l.equipo_id].estado = "Prestado"
                   /\ l.tipo_operacion = "Devolucion" /\ l.estado_actual = "Prestado"
                      => equipos'[l.equipo_id].estado = "Disponible"]_vars

\* C7 witness: a Devolucion was recorded after an Entrega of the same item.
C7_Witness ==
    /\ resultado = "ok"
    /\ \E e \in DOMAIN equipos :
          /\ equipos[e].estado = "Disponible"
          /\ \E i, j \in FilasDe(e) :
                /\ i < j
                /\ transacciones[i].tipo_operacion = "Entrega"
                /\ transacciones[j].tipo_operacion = "Devolucion"
                /\ transacciones[j].empleado = "Ana Ruiz"

\* C8: the committed log and the committed estado change only together, in
\* one step: a step that makes a new row visible makes the estado that row
\* calls for visible in the same step, and no step changes an estado
\* without making a row of that item visible.
C8_InsertYEstadoJuntos ==
    [][/\ \A i \in FilasAgregadas :
            /\ transacciones'[i].equipo_id \in DOMAIN equipos'
            /\ equipos'[transacciones'[i].equipo_id].estado =
                  (IF transacciones'[i].tipo_operacion = "Entrega"
                   THEN "Prestado" ELSE "Disponible")
       /\ \A e \in DOMAIN equipos :
            equipos'[e].estado # equipos[e].estado
            => \E i \in FilasAgregadas : transacciones'[i].equipo_id = e
       /\ Len(transacciones') <= Len(transacciones) + 1]_vars

\* C8 witness: an open transaction holds both writes, neither of them
\* visible yet, right before a commit has happened elsewhere in the log.
C8_Witness ==
    \E s \in Sesiones :
        /\ pc[s] = "commit"
        /\ pend[s].fila # <<>>
        /\ pend[s].estado = "Disponible"
        /\ equipos[loc[s].equipo_id].estado = "Prestado"
        /\ Len(transacciones) >= 1

\* C9: a failure inside registrar_transaccion, at the INSERT, at the UPDATE
\* or at the commit, leaves the committed log and every committed estado as
\* they were before the operation, and nothing of it stays pending.
C9_FalloTodoONada ==
    [][\A s \in Sesiones :
          PasoFallo(s)
          => /\ UNCHANGED <<equipos, transacciones>>
             /\ pend'[s] = PendVacio]_vars

\* C9 witness: a failure at the commit, after the INSERT and the UPDATE of a
\* return, left the item on loan.
C9_Witness ==
    /\ resultado = "FalloCommit"
    /\ \E e \in DOMAIN equipos :
          /\ equipos[e].estado = "Prestado"
          /\ Cardinality(FilasDe(e)) = 1
    /\ \A s \in Sesiones : pc[s] = "idle"

\* C10: obtener_estado_equipo returns (Disponible, None, None) for an item
\* with no transactions, (Prestado, employee, timestamp) of the last
\* transaction when that is an Entrega, and (Disponible, None, timestamp) of
\* the last transaction when that is a Devolucion.
C10_ValoresDerivados ==
    \A e \in DOMAIN equipos : \A r \in obtener_estado_equipo(e) :
        IF FilasDe(e) = {}
        THEN r = [estado |-> "Disponible", usuario |-> NULL, fecha |-> <<>>]
        ELSE LET t == transacciones[UltimaTransaccion(e)]
             IN IF t.tipo_operacion = "Entrega"
                THEN r = [estado |-> "Prestado", usuario |-> t.empleado,
                          fecha |-> <<t.fecha_hora>>]
                ELSE r = [estado |-> "Disponible", usuario |-> NULL,
                          fecha |-> <<t.fecha_hora>>]

\* The fields of a form as the handler reads them.
Campos(tipo, p, resp) ==
    [tipo_operacion |-> tipo, empleado |-> p.empleado, responsable |-> resp]

\* The Entrega rows of e, and the most recent of them (greatest timestamp,
\* ties broken by the greatest id).
EntregasDe(e) == {j \in FilasDe(e) : transacciones[j].tipo_operacion = "Entrega"}

UltimaEntrega(e) == CHOOSE i \in EntregasDe(e) : \A j \in EntregasDe(e) \ {i} : Antes(j, i)

\* C11: the timestamps of the transactions of one item increase strictly in
\* the order they were recorded, so no two of them are equal.
C11_FechasCrecientes ==
    \A e \in EquipoIds : \A i, j \in FilasDe(e) :
        i < j => transacciones[i].fecha_hora < transacciones[j].fecha_hora

\* C12: on a registered item the handler answers with the missing-field
\* message exactly when an Entrega has no employee name or no responsable, or
\* a Devolucion has no responsable (a Devolucion with no employee name is not
\* refused for it); a run that ends in a refusal leaves the log, every
\* estado and every open transaction as they were, and a run that goes on to
\* registrar_transaccion carries the fields its kind requires.
C12_CamposObligatorios ==
    /\ [](\A e \in DOMAIN equipos, tipo \in TiposOperacion,
             p \in Personas, resp \in Responsables :
             (Rechazo(e, Campos(tipo, p, resp)) = "CamposObligatorios")
             <=> \/ tipo = "Entrega" /\ (p.empleado = "" \/ resp = "")
                 \/ tipo = "Devolucion" /\ resp = "")
    /\ [][\A s \in Sesiones :
            PasoValidar(s)
            => /\ pc'[s] = "idle" => UNCHANGED <<equipos, transacciones, pend>>
               /\ pc'[s] # "idle"
                  => /\ loc'[s].responsable # ""
                     /\ loc'[s].tipo_operacion = "Entrega" => loc'[s].empleado # ""]_vars

\* C12 witness: an operation was refused for a missing field while an item
\* was on loan.
C12_Witness ==
    /\ resultado = "CamposObligatorios"
    /\ \E e \in DOMAIN equipos : equipos[e].estado = "Prestado"

\* C14: the handler refuses every operation on an id that is not in equipos
\* with the unknown-equipment message, and every row, committed or pending,
\* names an id that is in equipos.
C14_EquipoDesconocido ==
    /\ \A e \in EquipoIds \ DOMAIN equipos : \A tipo \in TiposOperacion :
          \A p \in Personas, resp \in Responsables :
             Rechazo(e, Campos(tipo, p, resp)) = "NoExiste"
    /\ \A i \in 1..Len(transacciones) : transacciones[i].equipo_id \in DOMAIN equipos
    /\ \A s \in Sesiones : \A i \in 1..Len(pend[s].fila) :
          pend[s].fila[i].equipo_id \in DOMAIN equipos

\* C14 witness: rows have been recorded while some id is not registered.
C14_Witness ==
    /\ EquipoIds \ DOMAIN equipos # {}
    /\ Len(transacciones) >= 2

\* C15: no step changes or removes a row of the log, and every row a step
\* adds has an id greater than every id already in the log.
C15_SoloAgregar ==
    [][/\ Len(transacciones') >= Len(transacciones)
       /\ SubSeq(transacciones', 1, Len(transacciones)) = transacciones
       /\ \A i \in FilasAgregadas : \A j \in 1..Len(transacciones) :
             transacciones'[i].id > transacciones[j].id]_vars

\* C15 witness: the log holds several rows, also after a failed operation.
C15_Witness ==
    /\ Len(transacciones) >= 2
    /\ transacciones[2].id > transacciones[1].id
    /\ resultado = "FalloCommit"

\* C17: obtener_equipos_prestados holds, for every item whose estado is
\* Prestado and that has an Entrega, exactly one entry with the employee,
\* email, area and timestamp of its most recent Entrega, and no entry for
\* any other item.
C17_PrestamosActivos ==
    \A e \in DOMAIN equipos :
        obtener_equipos_prestados(e) =
            (IF equipos[e].estado = "Prestado" /\ EntregasDe(e) # {}
             THEN LET t == transacciones[UltimaEntrega(e)]
                  IN {[empleado |-> t.empleado, email |-> t.email, area |-> t.area,
                       fecha_prestamo |-> t.fecha_hora]}
             ELSE {})

\* A step of "Agregar Equipo": its message is on screen and the inputs, the
\* message or the table changed.
PasoAlta ==
    /\ resultado' \in {"EquipoAgregado", "YaExiste", "CompletaCampos"}
    /\ alta' # alta \/ resultado' # resultado \/ equipos' # equipos

\* obtener_empleados_activos, lines 218-228: the distinct (empleado, email,
\* area) of the Entrega rows.
obtener_empleados_activos ==
    {[empleado |-> transacciones[i].empleado, email |-> transacciones[i].email,
      area |-> transacciones[i].area] :
        i \in {j \in 1..Len(transacciones) : transacciones[j].tipo_operacion = "Entrega"}}

\* C13: registering an id that is not in equipos succeeds and adds exactly
\* the row (nombre, tipo, Disponible) under that id; registering an id that
\* is in equipos fails with the already-exists message and leaves that row
\* (nombre, tipo, estado), every other row, the log and the directory as
\* they were; a row appears in equipos in no other way.
C13_AltaEquipo ==
    [][/\ \A e \in DOMAIN equipos' \ DOMAIN equipos :
             /\ PasoAlta /\ alta'.id = e /\ resultado' = "EquipoAgregado"
             /\ equipos'[e] = [nombre |-> alta'.nombre, tipo |-> alta'.tipo,
                               estado |-> "Disponible"]
       /\ PasoAlta /\ alta'.id \in DOMAIN equipos
          => /\ resultado' = "YaExiste"
             /\ UNCHANGED <<equipos, transacciones, empleados, pend>>
       /\ PasoAlta /\ alta'.id \notin DOMAIN equipos
             /\ alta'.id # "" /\ alta'.nombre # "" /\ alta'.tipo # ""
          => /\ resultado' = "EquipoAgregado"
             /\ DOMAIN equipos' = DOMAIN equipos \cup {alta'.id}
             /\ \A x \in DOMAIN equipos : equipos'[x] = equipos[x]
             /\ UNCHANGED <<transacciones, empleados, pend>>]_vars

\* C13 witness: an item on loan was registered again under another name and
\* the attempt was refused.
C13_Witness ==
    /\ resultado = "YaExiste"
    /\ alta.id \in DOMAIN equipos
    /\ equipos[alta.id].nombre # alta.nombre
    /\ equipos[alta.id].estado = "Prestado"

\* C16: a step that changes the employee directory (add, delete, import)
\* leaves every row of the log and every row of equipos as they were, so
\* the estado and holder read from them do not change either.
C16_DirectorioAparte ==
    [][empleados' # empleados
       => /\ UNCHANGED <<equipos, transacciones>>
          /\ \A e \in EquipoIds :
                UNCHANGED <<obtener_estado_equipo(e), obtener_equipos_prestados(e)>>]_vars

\* C16 witness: an item is on loan to an employee picked from the directory
\* and that employee has been deleted.
C16_Witness ==
    /\ resultado = "EmpleadoEliminado"
    /\ \A c \in empleados.filas : NombreCompleto(c.nombre, c.apellido) # "Ana Ruiz"
    /\ \E e \in DOMAIN equipos :
          /\ equipos[e].estado = "Prestado"
          /\ FilasDe(e) # {}
          /\ transacciones[UltimaRegistrada(e)].empleado = "Ana Ruiz"
          /\ transacciones[UltimaRegistrada(e)].area = "Ventas"

\* C18: obtener_empleados_activos has one entry per employee name, also
\* when Entregas carry the name with different email or area.
C18_TitularesUnicos ==
    \A a, b \in obtener_empleados_activos : a.empleado = b.empleado => a = b

\* C20: a row of equipos is never removed, its nombre and tipo never change,
\* and its estado changes only in a step that appends a transaction of that
\* item, to the estado of that transaction's kind.
C20_EquipoEstable ==
    [][\A e \in DOMAIN equipos :
          /\ e \in DOMAIN equipos'
          /\ equipos'[e].nombre = equipos[e].nombre
          /\ equipos'[e].tipo = equipos[e].tipo
          /\ equipos'[e].estado # equipos[e].estado
             => \E i \in FilasAgregadas :
                   /\ transacciones'[i].equipo_id = e
                   /\ equipos'[e].estado = NuevoEstado(transacciones'[i].tipo_operacion)]_vars

\* C20 witness: of two items registered under different names one is on
\* loan and the other has been lent and returned.
C20_Witness ==
    \E e1, e2 \in DOMAIN equipos :
        /\ equipos[e1].nombre # equipos[e2].nombre
        /\ equipos[e1].estado = "Prestado"
        /\ equipos[e2].estado = "Disponible"
        /\ Cardinality(FilasDe(e2)) = 2

\* A cell with nothing in it once outer blanks are removed: an empty cell
\* or one of blanks only.
CeldaEnBlanco(c) == c = <<>> \/ Strip(c[1]) = ""

\* The rows of the file df in which area, nombre or apellido is blank.
FilasEnBlanco(df) ==
    {i \in 1..Len(df) : \/ CeldaEnBlanco(df[i].area)
                        \/ CeldaEnBlanco(df[i].nombre)
                        \/ CeldaEnBlanco(df[i].apellido)}

\* C21: every import step counts each row of its file once (importados
\* plus errors is the number of rows), reports every row whose area, nombre
\* or apellido is blank and inserts exactly the other rows.
C21_ImportacionContada ==
    [][\A df \in ArchivosCSV :
          BotonImportar(1, df)
          => LET r == importar_empleados_csv(df)
             IN /\ r.importados + r.errores = Len(df)
                /\ r.errores >= Cardinality(FilasEnBlanco(df))
                /\ Cardinality(empleados'.filas)
                     = Cardinality(empleados.filas) + Len(df)
                        - Cardinality(FilasEnBlanco(df))]_vars

\* The estado the last transaction of e stands for (none: Disponible), the
\* last being the one of greatest timestamp, ties broken by the greatest id.
EstadoPorUltima(e) ==
    IF FilasDe(e) = {} THEN "Disponible"
    ELSE NuevoEstado(transacciones[UltimaTransaccion(e)].tipo_operacion)

\* C22: for every registered item and kind of operation, the handler's
\* legality decision on the estado column is the decision it would take on
\* the estado the item's last transaction stands for.
C22_DecisionPorUltima ==
    \A e \in DOMAIN equipos : \A tipo \in TiposOperacion :
        TransicionIlegal(tipo, equipos[e].estado)
            = TransicionIlegal(tipo, EstadoPorUltima(e))

\* An operation of kind tipo with these fields lacks a required one.
FaltaCampo(tipo, p, resp) ==
    \/ tipo = "Entrega" /\ (p.empleado = "" \/ resp = "")
    \/ tipo = "Devolucion" /\ resp = ""

\* An operation of kind tipo is against the estado of e.
ContraEstado(tipo, e) ==
    \/ tipo = "Entrega" /\ equipos[e].estado = "Prestado"
    \/ tipo = "Devolucion" /\ equipos[e].estado = "Disponible"

\* C23: the handler answers unknown equipment for an id that is not
\* registered whatever the fields are; for a registered id it answers
\* missing field whenever a required field is missing, also when the
\* operation is against the estado, and illegal transition only when the
\* fields are complete.
C23_OrdenDeChequeos ==
    \A e \in EquipoIds, tipo \in TiposOperacion, p \in Personas, resp \in Responsables :
        LET r == Rechazo(e, Campos(tipo, p, resp))
        IN IF e \notin DOMAIN equipos THEN r = "NoExiste"
           ELSE IF FaltaCampo(tipo, p, resp) THEN r = "CamposObligatorios"
           ELSE IF ContraEstado(tipo, e) THEN r = "TransicionIlegal"
           ELSE r = ""

\* C23 witness: a session is about to click with an Entrega of an item that
\* has become Prestado since its form was drawn, so the click with an empty
\* responsable both lacks a field and is against the estado, while another
\* id is not registered.
C23_Witness ==
    /\ EquipoIds \ DOMAIN equipos # {}
    /\ \E s \in Sesiones :
          /\ pc[s] = "boton"
          /\ loc[s].equipo_id \in DOMAIN equipos
          /\ loc[s].tipo_operacion = "Entrega"
          /\ equipos[loc[s].equipo_id].estado = "Prestado"

\* C24: the estado of every registered item is Disponible or Prestado, so
\* the list of available items and the list of loaned items are disjoint
\* and together hold every registered item.
C24_EstadosParten ==
    /\ \A e \in DOMAIN equipos : equipos[e].estado \in {"Disponible", "Prestado"}
    /\ equipos_disponibles \cap equipos_prestados = {}
    /\ equipos_disponibles \cup equipos_prestados = DOMAIN equipos

\* C24 witness: after a loan and a return there is an item in each list.
C24_Witness ==
    /\ equipos_disponibles # {}
    /\ equipos_prestados # {}
    /\ \E i \in 1..Len(transacciones) : transacciones[i].tipo_operacion = "Devolucion"

\* The items that have an entry in obtener_equipos_prestados().
ConPrestamoActivo == {e \in DOMAIN equipos : obtener_equipos_prestados(e) # {}}

\* C25: every item whose estado is Prestado has an Entrega in the log, so
\* obtener_equipos_prestados() has as many entries as there are items with
\* estado Prestado (the count "Equipos Prestados" of the reports view).
C25_PrestadosConEntrega ==
    /\ \A e \in equipos_prestados : EntregasDe(e) # {}
    /\ Cardinality(ConPrestamoActivo) = Cardinality(equipos_prestados)

\* C25 witness: two items are on loan at once.
C25_Witness ==
    /\ Cardinality(equipos_prestados) = 2
    /\ Cardinality(ConPrestamoActivo) = 2

\* The item the operation of session s is about in this step: the one its
\* form holds, or the one it takes when the form is drawn in this step.
EquipoDelPaso(s) == IF pc[s] = "idle" THEN loc'[s].equipo_id ELSE loc[s].equipo_id

\* C26: every step of a record operation, to its acceptance, refusal or
\* failure, leaves the row of equipos of every other item as it was, keeps
\* the log's rows and adds rows of its own item only.
C26_OtrosEquiposIntactos ==
    [][\A s \in Sesiones :
          pc'[s] # pc[s]
          => /\ \A e \in DOMAIN equipos \ {EquipoDelPaso(s)} :
                   e \in DOMAIN equipos' /\ equipos'[e] = equipos[e]
             /\ SubSeq(transacciones', 1, Len(transacciones)) = transacciones
             /\ \A i \in FilasAgregadas :
                   transacciones'[i].equipo_id = EquipoDelPaso(s)]_vars

\* C26 witness: an operation on one item has been recorded while another
\* item was on loan, and the other item still is.
C26_Witness ==
    /\ resultado = "ok"
    /\ Len(transacciones) >= 2
    /\ \E e \in DOMAIN equipos :
          /\ equipos[e].estado = "Prestado"
          /\ transacciones[Len(transacciones)].equipo_id # e
          /\ transacciones[Len(transacciones)].tipo_operacion = "Devolucion"

\* The Entrega rows of the item of row i recorded before row i, and the most
\* recent of them (greatest timestamp, ties broken by the greatest id).
EntregasAntesDe(i) == {j \in EntregasDe(transacciones[i].equipo_id) : j < i}

EntregaQueCierra(i) ==
    CHOOSE j \in EntregasAntesDe(i) : \A k \in EntregasAntesDe(i) \ {j} : Antes(k, j)

\* C27: every Devolucion row has an Entrega of its item recorded before it
\* and carries the empleado, email and area of the most recent of them.
C27_DevolucionDelTitular ==
    \A i \in 1..Len(transacciones) :
        transacciones[i].tipo_operacion = "Devolucion"
        => /\ EntregasAntesDe(i) # {}
           /\ transacciones[i].empleado = transacciones[EntregaQueCierra(i)].empleado
           /\ transacciones[i].email = transacciones[EntregaQueCierra(i)].email
           /\ transacciones[i].area = transacciones[EntregaQueCierra(i)].area

\* Session s has no preload.
SinPrecarga(s) ==
    sesion[s].equipo_precargado = NULL /\ sesion[s].operacion_precargada = NULL

\* The preload of session s changes in this step.
PrecargaCambia(s) ==
    \/ sesion'[s].equipo_precargado # sesion[s].equipo_precargado
    \/ sesion'[s].operacion_precargada # sesion[s].operacion_precargada

\* C28: a click on Prestar or Devolver leads to a run that shows the
\* registration view with navegar_a_registro False and the clicked item and
\* its kind of operation preloaded; the preload is gone after a recorded
\* operation and after any other view is rendered, it changes in no other
\* step, and there is never a preload while another view is shown.
C28_PrecargaUnaVez ==
    /\ [](\A s \in Sesiones :
            /\ ~sesion[s].navegar_a_registro
            /\ sesion[s].menu_principal # "Registro" => SinPrecarga(s))
    /\ [][\A s \in Sesiones :
            /\ \A e \in EquipoIds :
                  BotonPrestarDevolver(s, e)
                  => /\ sesion'[s].menu_principal = "Registro"
                     /\ sesion'[s].equipo_precargado = e
                     /\ sesion'[s].operacion_precargada \in TiposOperacion
            /\ PasoCommit(s) => SinPrecarga(s)'
            /\ sesion'[s].menu_principal \notin {"Registro", sesion[s].menu_principal}
               => SinPrecarga(s)'
            /\ ~SinPrecarga(s) /\ PrecargaCambia(s)
               => PasoCommit(s) \/ sesion'[s].menu_principal # "Registro"]_vars

\* C28 witness: the registration form is drawn for a return, in the run
\* after a click on Devolver, with the preload still set.
C28_Witness ==
    \E s \in Sesiones :
        /\ sesion[s].menu_principal = "Registro"
        /\ ~sesion[s].navegar_a_registro
        /\ sesion[s].equipo_precargado \in DOMAIN equipos
        /\ sesion[s].operacion_precargada = "Devolucion"
        /\ pc[s] = "boton"
        /\ loc[s].equipo_id = sesion[s].equipo_precargado

====
